---- MODULE Spec2Model ----
(***************************************************************************)
(* Model of the chat relay server (the variant with image messages,        *)
(* src/README.md:373-738; src/unnamed/part_000 is the same server without  *)
(* the image handling).                                                    *)
(*                                                                         *)
(* A JavaScript string is a sequence of tokens (characters for free text,  *)
(* whole words for channel names, path segments for image urls).  A        *)
(* JavaScript value that a client may put in a payload field is a record   *)
(* [type, str].  A JavaScript object is a function over the names of the   *)
(* properties it has: a property that is absent is absent from the DOMAIN. *)
(***************************************************************************)
EXTENDS Integers, Sequences, FiniteSets, TLC

VARIABLES
  up,           \* the server process is running
  ADMIN_SECRET, \* process.env.ADMIN_SECRET, fixed for the whole run
  messages,     \* the in-memory `messages` object: channel name -> array
  primary,      \* data/messages.json
  backup,       \* data/messages-backup.json
  faulted,      \* a file-system call has thrown in this run
  userIdOf,     \* connected socket -> the userId of its connection closure
  uuids,        \* how many uuidv4() values have been drawn so far
  lastOp,       \* what the last step was and how it ended
  effects,      \* the side effects of the last step, in program order
  received      \* connected socket -> the first two events delivered to it

vars == <<up, ADMIN_SECRET, messages, primary, backup, faulted, userIdOf,
          uuids, lastOp, effects, received>>

----------------------------------------------------------------------------
(* Bounds of the model.  The two program limits are configuration values   *)
(* (25 or 50 messages, 500 characters); the model runs them scaled down.   *)

MAX_MESSAGES_PER_CHANNEL == 2
MAX_MESSAGE_LENGTH == 2
MaxUuid == 2

Channels == {"channel1", "channel2"}
Sockets == {"s1", "s2"}

----------------------------------------------------------------------------
(* JavaScript values                                                       *)

Undefined == [type |-> "undefined", str |-> <<>>]
Str(s) == [type |-> "string", str |-> s]
Num == [type |-> "number", str |-> <<>>]     \* some non-zero number

Truthy(v) ==
  CASE v.type = "undefined" -> FALSE
    [] v.type = "string" -> Len(v.str) > 0
    [] OTHER -> TRUE

IsWhitespace(c) == c = " "

RECURSIVE TrimStart(_)
TrimStart(s) ==
  IF s # <<>> /\ IsWhitespace(Head(s)) THEN TrimStart(Tail(s)) ELSE s

RECURSIVE TrimEnd(_)
TrimEnd(s) ==
  IF s # <<>> /\ IsWhitespace(s[Len(s)])
  THEN TrimEnd(SubSeq(s, 1, Len(s) - 1))
  ELSE s

Trim(s) == TrimEnd(TrimStart(s))

Repeat(c, n) == [i \in 1..n |-> c]

uuidv4(n) == <<"uuid", ToString(n)>>

ISOString == <<"2025-11-05T00:00:00.000Z">>

----------------------------------------------------------------------------
(* Message objects and their JSON text                                     *)

\* The order in which the handler creates the properties of a message.
FieldOrder == <<"id", "userId", "username", "message", "timestamp", "imageUrl">>

Has(obj, key) == key \in DOMAIN obj

\* JSON.stringify of one message: its own properties, in order, as
\* key/value pairs.  A property the object lacks produces no pair.
StringifyMessage(m) ==
  LET keys == SelectSeq(FieldOrder, LAMBDA k : Has(m, k))
  IN [i \in 1..Len(keys) |-> <<keys[i], m[keys[i]]>>]

\* ParseMessage as a loader that fills in a missing timestamp would be.
ParseMessageFabricating(pairs) ==
  [k \in {pairs[i][1] : i \in 1..Len(pairs)} \cup {"timestamp"} |->
     IF \E j \in 1..Len(pairs) : pairs[j][1] = k
     THEN LET i == CHOOSE j \in 1..Len(pairs) : pairs[j][1] = k IN pairs[i][2]
     ELSE ISOString]

\* JSON.parse of one message: exactly the properties the text has.
ParseMessage(pairs) ==
  [k \in {pairs[i][1] : i \in 1..Len(pairs)} |->
     LET i == CHOOSE j \in 1..Len(pairs) : pairs[j][1] = k IN pairs[i][2]]

\* JSON.stringify(messages, null, 2): every key of the object, each array
\* element by element.
JSONstringify(obj) ==
  [c \in DOMAIN obj |-> [i \in 1..Len(obj[c]) |-> StringifyMessage(obj[c][i])]]

JSONparse(json) ==
  [c \in DOMAIN json |-> [i \in 1..Len(json[c]) |-> ParseMessage(json[c][i])]]

NoJson == [c \in {} |-> <<>>]

\* A file of the data directory: absent, unparsable, or holding JSON text.
NoFile == [exists |-> FALSE, valid |-> FALSE, json |-> NoJson]
TornFile == [exists |-> TRUE, valid |-> FALSE, json |-> NoJson]
JsonFile(json) == [exists |-> TRUE, valid |-> TRUE, json |-> json]

ImageUrl(f) == <<"/uploads/", f>>

----------------------------------------------------------------------------
(* Side effects, recorded in program order                                 *)

Emit(to, ev, payload) == [op |-> "emit", to |-> to, ev |-> ev, payload |-> payload]
FsWrite(outcome) == [op |-> "write", to |-> "fs", ev |-> outcome, payload |-> <<>>]
FsDelete(file, outcome) == [op |-> "delete", to |-> "fs", ev |-> outcome, payload |-> file]
Shift(m) == [op |-> "shift", to |-> "memory", ev |-> "shift", payload |-> m]

\* The names of the events that the emits of `log` deliver to socket s:
\* socket.emit reaches that socket, io.emit every connected socket.
EventsFor(s, log) ==
  LET mine == SelectSeq(log, LAMBDA e : e.op = "emit" /\ e.to \in {s, "all"})
  IN [i \in 1..Len(mine) |-> mine[i].ev]

FirstTwo(seq) == SubSeq(seq, 1, IF Len(seq) < 2 THEN Len(seq) ELSE 2)

\* What each socket of `connected` has received first on its connection,
\* after the emits of `log` have been delivered.
Delivered(rec, log, connected) ==
  [s \in connected |->
     FirstTwo((IF s \in DOMAIN rec THEN rec[s] ELSE <<>>) \o EventsFor(s, log))]

\* ErrorNotice sent with io.emit instead of socket.emit.
ErrorNoticeToAll(s, text) == Emit("all", "error", [message |-> text])

\* socket.emit('error', { message })
ErrorNotice(s, text) == Emit(s, "error", [message |-> text])

----------------------------------------------------------------------------
(* Persistence: saveMessages and loadMessages                              *)

\* The outcomes of a file-system call: it returns or it throws.  The model
\* lets one file-system call throw in a run.
IoOutcomes == {"ok"} \cup (IF faulted THEN {} ELSE {"fail"})

\* saveMessages as in the server before persistence was added: no write.
saveMessagesSkipped(msgs, file, w) == file

\* fs.writeFileSync(MESSAGES_FILE, JSON.stringify(messages)) inside try/catch:
\* the file is replaced, or the write throws and the error is only logged.
saveMessages(msgs, file, w) ==
  IF w = "ok" THEN JsonFile(JSONstringify(msgs)) ELSE file

InitialMessages == [c \in Channels |-> <<>>]

\* LoadSource when the backup file is looked for first.
LoadSourceBackupFirst ==
  IF backup.exists THEN "messages-backup.json"
  ELSE IF primary.exists THEN "messages.json"
  ELSE "none"

LoadSource ==
  IF primary.exists THEN "messages.json"
  ELSE IF backup.exists THEN "messages-backup.json"
  ELSE "none"

\* The state loadMessages leaves behind.  io = "fail": the one file-system
\* call of this run that throws (readFileSync, or the migration's write).
loadMessages(io) ==
  LET source == LoadSource
      file == IF source = "messages.json" THEN primary ELSE backup
      loaded == JSONparse(file.json)
      readOk == source = "messages-backup.json" \/ io = "ok"
      w == IF source = "messages-backup.json" THEN io ELSE "ok"
  IN  IF source = "none"
      THEN [messages |-> InitialMessages, primary |-> primary, effects |-> <<>>,
            threw |-> FALSE]
      ELSE IF ~readOk \/ ~file.valid
      THEN \* readFileSync or JSON.parse threw
           [messages |-> InitialMessages, primary |-> primary, effects |-> <<>>,
            threw |-> io = "fail"]
      ELSE IF ~(Channels \subseteq DOMAIN loaded)
      THEN \* `messages = loadedMessages` has run; messages.channelN.length throws
           [messages |-> loaded, primary |-> primary, effects |-> <<>>,
            threw |-> FALSE]
      ELSE IF source = "messages-backup.json"
      THEN [messages |-> loaded, primary |-> saveMessages(loaded, primary, w),
            effects |-> <<FsWrite(w)>>, threw |-> w = "fail"]
      ELSE [messages |-> loaded, primary |-> primary, effects |-> <<>>,
            threw |-> FALSE]

----------------------------------------------------------------------------
(* What may be on disk when the process first starts                       *)

\* A message written by an earlier run.  Odd ones predate timestamps and
\* carry an image.
Legacy(i) ==
  LET base == [id |-> <<"legacy", ToString(i)>>, userId |-> <<"legacy-user">>,
               username |-> <<"a">>, message |-> <<"a">>]
  IN  IF i % 2 = 1
      THEN base @@ [imageUrl |-> ImageUrl(IF i % 4 = 1 THEN "x" ELSE "y")]
      ELSE base @@ [timestamp |-> ISOString]

Snapshot(n1, n2) ==
  [c \in Channels |->
     IF c = "channel1" THEN [i \in 1..n1 |-> Legacy(i)]
     ELSE [i \in 1..n2 |-> Legacy(n1 + i)]]

Secret == Str(<<"s3", "cret">>)

\* The configurations a run starts from:
\* <<ADMIN_SECRET, messages.json, messages-backup.json>>
InitialConfigs ==
  { <<Secret, NoFile, NoFile>>,
    <<Secret, JsonFile(NoJson), NoFile>>,
    <<Secret, JsonFile(JSONstringify(Snapshot(MAX_MESSAGES_PER_CHANNEL, 1))), NoFile>>,
    <<Secret, JsonFile(JSONstringify(Snapshot(MAX_MESSAGES_PER_CHANNEL + 1, 0))), NoFile>>,
    <<Secret, TornFile, JsonFile(JSONstringify(Snapshot(1, 1)))>>,
    <<Secret, JsonFile(JSONstringify(Snapshot(0, 0))),
              JsonFile(JSONstringify(Snapshot(1, 1)))>>,
    <<Undefined, NoFile, JsonFile(JSONstringify(Snapshot(1, MAX_MESSAGES_PER_CHANNEL)))>> }

Init ==
  /\ up = FALSE
  /\ \E c \in InitialConfigs :
       ADMIN_SECRET = c[1] /\ primary = c[2] /\ backup = c[3]
  /\ messages = InitialMessages
  /\ faulted = FALSE
  /\ userIdOf = [s \in {} |-> <<>>]
  /\ uuids = 0
  /\ lastOp = "init"
  /\ effects = <<>>
  /\ received = [s \in {} |-> <<>>]

----------------------------------------------------------------------------
(* Process start and stop                                                  *)

\* node server.js: the module body runs, loadMessages() included.
Start ==
  /\ lastOp = "init"
  /\ \E io \in IoOutcomes :
       LET r == loadMessages(io) IN
         /\ messages' = r.messages
         /\ primary' = r.primary
         /\ effects' = r.effects
         /\ faulted' = (faulted \/ r.threw)
  /\ up' = TRUE
  /\ lastOp' = "start"
  /\ UNCHANGED <<ADMIN_SECRET, backup, userIdOf, uuids>>
  /\ received' = Delivered(received, effects', DOMAIN userIdOf')

\* The process ends (SIGTERM, SIGINT): memory and connections are gone.  The
\* model follows one lifetime of the process; what a later start would load
\* is loadMessages evaluated in the final state.
Stop ==
  /\ up
  /\ up' = FALSE
  /\ messages' = InitialMessages
  /\ userIdOf' = [s \in {} |-> <<>>]
  /\ lastOp' = "stop"
  /\ effects' = <<>>
  /\ UNCHANGED <<ADMIN_SECRET, primary, backup, faulted, uuids>>
  /\ received' = Delivered(received, effects', DOMAIN userIdOf')

----------------------------------------------------------------------------
(* Connections                                                             *)

\* HistoryPayload read back from the data files instead of from memory.
HistoryPayloadFromDisk(msgs) ==
  LET onDisk == loadMessages("ok").messages
  IN [c \in DOMAIN onDisk \cap Channels |-> onDisk[c]]

\* { channel1: messages.channel1, channel2: messages.channel2 }
HistoryPayload(msgs) == [c \in DOMAIN msgs \cap Channels |-> msgs[c]]

\* ConnectEmits with the two emits in the other order.
ConnectEmitsHistoryFirst(s, userId, msgs) ==
  <<Emit(s, "message_history", HistoryPayload(msgs)), Emit(s, "user_id", userId)>>

\* socket.emit('user_id', userId); socket.emit('message_history', {...})
ConnectEmits(s, userId, msgs) ==
  <<Emit(s, "user_id", userId), Emit(s, "message_history", HistoryPayload(msgs))>>

\* io.on('connection'): a fresh userId, then identity and history to the
\* new socket only.
Connect(s) ==
  /\ up
  /\ s \notin DOMAIN userIdOf
  /\ uuids < MaxUuid
  /\ LET userId == uuidv4(uuids + 1) IN
       /\ userIdOf' = userIdOf @@ (s :> userId)
       /\ effects' = ConnectEmits(s, userId, messages)
  /\ uuids' = uuids + 1
  /\ lastOp' = "connection"
  /\ UNCHANGED <<up, ADMIN_SECRET, messages, primary, backup, faulted>>
  /\ received' = Delivered(received, effects', DOMAIN userIdOf')

Disconnect(s) ==
  /\ up
  /\ s \in DOMAIN userIdOf
  /\ userIdOf' = [t \in DOMAIN userIdOf \ {s} |-> userIdOf[t]]
  /\ lastOp' = "disconnect"
  /\ effects' = <<>>
  /\ UNCHANGED <<up, ADMIN_SECRET, messages, primary, backup, faulted, uuids>>
  /\ received' = Delivered(received, effects', DOMAIN userIdOf')

\* An exception escapes a handler: nothing catches it and the process dies.
Crashed(done) ==
  /\ up' = FALSE
  /\ messages' = InitialMessages
  /\ userIdOf' = [s \in {} |-> <<>>]
  /\ effects' = done

----------------------------------------------------------------------------
(* deleteMessageImage                                                      *)

HasImageUrl(m) == Has(m, "imageUrl") /\ Len(m.imageUrl) > 0

Basename(url) == url[Len(url)]

\* deleteMessageImage as in the server before images: nothing is deleted.
deleteMessageImageSkipped(m, failing) == <<>>

\* deleteMessageImage(message): for a message with an imageUrl the uploads
\* directory is asked to drop the file of that name (existsSync, unlinkSync);
\* an error thrown there is caught and logged.  failing: the files for which
\* it throws.
deleteMessageImage(m, failing) ==
  IF HasImageUrl(m)
  THEN LET f == Basename(m.imageUrl) IN
         <<FsDelete(f, IF f \in failing THEN "fail" ELSE "ok")>>
  ELSE <<>>

\* The files that the deletions for `list` touch.
ImageFiles(list) ==
  {Basename(list[i].imageUrl) : i \in {j \in 1..Len(list) : HasImageUrl(list[j])}}

\* At most one file whose deletion throws, and none once a call has thrown.
FailingChoices(files) ==
  {{}} \cup (IF faulted THEN {} ELSE {{f} : f \in files})

\* forEachDelete that looks at the first message only.
forEachDeleteFirstOnly(list, failing) ==
  IF list = <<>> THEN <<>> ELSE deleteMessageImage(Head(list), failing)

\* list.forEach(deleteMessageImage)
RECURSIVE forEachDelete(_, _)
forEachDelete(list, failing) ==
  IF list = <<>> THEN <<>>
  ELSE deleteMessageImage(Head(list), failing) \o forEachDelete(Tail(list), failing)

----------------------------------------------------------------------------
(* send_message                                                            *)

\* An event emitted without a payload: the handler's `data` is undefined.
NoPayload == Undefined

Payload(channel, username, message, imageUrl) ==
  [channel |-> channel, username |-> username, message |-> message,
   imageUrl |-> imageUrl]

LongText == Str(Repeat("a", MAX_MESSAGE_LENGTH + 1))
PaddedText == Str(Repeat("a", MAX_MESSAGE_LENGTH - 1) \o Repeat(" ", 2))
BlankText == Str(Repeat(" ", MAX_MESSAGE_LENGTH + 1))

\* The payloads clients send: each check failed in every way, with later
\* checks failing too, and the shapes that are accepted.
SendInputs ==
  {Payload(c, Undefined, LongText, Undefined) :
     c \in {Undefined, Str(<<>>), Str(<<"both">>), Str(<<"lobby">>)}}
  \cup
  {Payload(Str(<<"channel1">>), u, LongText, Str(ImageUrl("x"))) :
     u \in {Undefined, Num, Str(<<" ">>)}}
  \cup
  {Payload(Str(<<"channel2">>), Str(<<" ", "a">>), m, i) :
     m \in {Undefined, Num, BlankText},
     i \in {Undefined, Str(<<"/tmp/", "x">>)}}
  \cup
  {Payload(Str(<<"channel1">>), Str(<<" ", "a">>), m, i) :
     m \in {LongText, PaddedText}, i \in {Undefined, Str(ImageUrl("x"))}}
  \cup
  {Payload(Str(<<"channel1">>), Str(<<"a", " ">>), Str(<<" ", "a">>), i) :
     i \in {Undefined, Str(ImageUrl("x")), Str(<<"/tmp/", "x">>)}}
  \cup
  {Payload(Str(<<"channel2">>), Str(<<"a", " ">>), m, Str(ImageUrl("x"))) :
     m \in {Undefined, BlankText}}
  \cup
  {Payload(Str(<<"channel1">>), Str(<<"a", " ">>), Str(<<" ", "a">>), Undefined)
     @@ [userId |-> Str(u)] : u \in {<<"legacy-user">>, uuidv4(1)}}

Includes(names, v) == v.type = "string" /\ Len(v.str) = 1 /\ v.str[1] \in names

\* hasMessage without the trim().
hasMessageUntrimmed(data) ==
  /\ Truthy(data.message)
  /\ data.message.type = "string"
  /\ Len(data.message.str) > 0

\* `message && typeof message === 'string' && message.trim().length > 0`
hasMessage(data) ==
  /\ Truthy(data.message)
  /\ data.message.type = "string"
  /\ Len(Trim(data.message.str)) > 0

\* `imageUrl && typeof imageUrl === 'string' && imageUrl.startsWith('/uploads/')`
hasImage(data) ==
  /\ Truthy(data.imageUrl)
  /\ data.imageUrl.type = "string"
  /\ data.imageUrl.str[1] = "/uploads/"

TooLong(data) == hasMessage(data) /\ Len(data.message.str) > MAX_MESSAGE_LENGTH

\* SendVerdict with the username checked before the channel.
SendVerdictNameFirst(data) ==
  IF \/ ~Truthy(data.username)
     \/ data.username.type # "string"
     \/ Len(Trim(data.username.str)) = 0
  THEN <<"Username is required">>
  ELSE IF ~Truthy(data.channel) \/ ~Includes(Channels, data.channel)
  THEN <<"Invalid channel">>
  ELSE IF ~hasMessage(data) /\ ~hasImage(data)
  THEN <<"Message or image is required">>
  ELSE IF TooLong(data)
  THEN <<"Message too long (max ", ToString(MAX_MESSAGE_LENGTH), " characters)">>
  ELSE <<"ok">>

\* The validation of send_message: the text of the first error, or "ok".
SendVerdict(data) ==
  IF ~Truthy(data.channel) \/ ~Includes(Channels, data.channel)
  THEN <<"Invalid channel">>
  ELSE IF \/ ~Truthy(data.username)
          \/ data.username.type # "string"
          \/ Len(Trim(data.username.str)) = 0
  THEN <<"Username is required">>
  ELSE IF ~hasMessage(data) /\ ~hasImage(data)
  THEN <<"Message or image is required">>
  ELSE IF TooLong(data)
  THEN <<"Message too long (max ", ToString(MAX_MESSAGE_LENGTH), " characters)">>
  ELSE <<"ok">>

\* NewMessage that takes the author from the payload when it names one.
NewMessageTrustingPayload(data, userId, n) ==
  [id |-> uuidv4(n),
   userId |-> IF Has(data, "userId") THEN data.userId.str ELSE userId,
   username |-> Trim(data.username.str),
   message |-> IF hasMessage(data) THEN Trim(data.message.str) ELSE <<>>,
   timestamp |-> ISOString]
  @@ (IF hasImage(data) THEN [imageUrl |-> data.imageUrl.str] ELSE <<>>)

\* NewMessage with username and message stored as they were sent.
NewMessageUntrimmed(data, userId, n) ==
  LET base == [id |-> uuidv4(n),
               userId |-> userId,
               username |-> data.username.str,
               message |-> IF hasMessage(data) THEN data.message.str ELSE <<>>,
               timestamp |-> ISOString]
  IN IF hasImage(data) THEN base @@ [imageUrl |-> data.imageUrl.str] ELSE base

\* The message object send_message creates.
NewMessage(data, userId, n) ==
  LET base == [id |-> uuidv4(n),
               userId |-> userId,
               username |-> Trim(data.username.str),
               message |-> IF hasMessage(data) THEN Trim(data.message.str) ELSE <<>>,
               timestamp |-> ISOString]
  IN IF hasImage(data) THEN base @@ [imageUrl |-> data.imageUrl.str] ELSE base

\* `if (messages[channel].length > MAX_MESSAGES_PER_CHANNEL)`
OverLimit(list) == Len(list) > MAX_MESSAGES_PER_CHANNEL

\* PushAndTrim with pop() in place of shift(): the newest message is dropped.
PushAndTrimNewest(list, m) ==
  LET pushed == Append(list, m) IN
    IF OverLimit(pushed)
    THEN [list |-> SubSeq(pushed, 1, Len(pushed) - 1), removed |-> <<m>>]
    ELSE [list |-> pushed, removed |-> <<>>]

\* push, then shift once when over the limit: the array afterwards and the
\* message removed (as a sequence of at most one).
PushAndTrim(list, m) ==
  LET pushed == Append(list, m) IN
    IF OverLimit(pushed)
    THEN [list |-> Tail(pushed), removed |-> <<Head(pushed)>>]
    ELSE [list |-> pushed, removed |-> <<>>]

SendMessage(s, data) ==
  /\ up
  /\ s \in DOMAIN userIdOf
  /\ LET verdict == SendVerdict(data) IN
     IF data = NoPayload
     THEN \* destructuring undefined throws
          /\ Crashed(<<>>)
          /\ lastOp' = "send_message:throw"
          /\ UNCHANGED <<ADMIN_SECRET, primary, backup, faulted, uuids>>
     ELSE IF verdict # <<"ok">>
     THEN /\ lastOp' = "send_message:error"
          /\ effects' = <<ErrorNotice(s, verdict)>>
          /\ UNCHANGED <<up, ADMIN_SECRET, messages, primary, backup, faulted,
                         userIdOf, uuids>>
     ELSE /\ uuids < MaxUuid
          /\ uuids' = uuids + 1
          /\ UNCHANGED <<ADMIN_SECRET, backup>>
          /\ LET channel == data.channel.str[1]
                 newMessage == NewMessage(data, userIdOf[s], uuids + 1)
             IN
             IF channel \notin DOMAIN messages
             THEN \* messages[channel] is undefined: push throws
                  /\ Crashed(<<>>)
                  /\ lastOp' = "send_message:throw"
                  /\ UNCHANGED <<primary, faulted>>
             ELSE LET r == PushAndTrim(messages[channel], newMessage) IN
                  \E failing \in FailingChoices(ImageFiles(r.removed)) :
                  \E w \in IF failing = {} THEN IoOutcomes ELSE {"ok"} :
                  /\ messages' = [messages EXCEPT ![channel] = r.list]
                  /\ faulted' = (faulted \/ failing # {} \/ w = "fail")
                  /\ primary' = saveMessages(messages', primary, w)
                  /\ effects' =
                       [i \in 1..Len(r.removed) |-> Shift(r.removed[i])]
                       \o forEachDelete(r.removed, failing)
                       \o <<FsWrite(w),
                            Emit("all", "new_message",
                                 [channel |-> channel, message |-> newMessage])>>
                  /\ lastOp' = "send_message:ok"
                  /\ UNCHANGED <<up, userIdOf>>
  /\ received' = Delivered(received, effects', DOMAIN userIdOf')

----------------------------------------------------------------------------
(* clear_chat                                                              *)

ClearChannelInputs ==
  {Undefined, Num, Str(<<>>), Str(<<"channel1">>), Str(<<"channel2">>),
   Str(<<"both">>), Str(<<"lobby">>)}

ClearInputs ==
  [channel : ClearChannelInputs, secret : {Secret}]
  \cup
  [channel : {Undefined, Str(<<"channel1">>), Str(<<"lobby">>)},
   secret : {Undefined, Str(<<"s3">>), Str(<<"S3", "CRET">>), Str(<<"s3", "cret", "!">>)}]

\* Authorized as a prefix comparison of the two secrets.
AuthorizedByPrefix(secret) ==
  \/ secret = ADMIN_SECRET
  \/ /\ secret.type = "string" /\ ADMIN_SECRET.type = "string"
     /\ Len(secret.str) <= Len(ADMIN_SECRET.str)
     /\ SubSeq(ADMIN_SECRET.str, 1, Len(secret.str)) = secret.str

\* `secret !== ADMIN_SECRET` is false
Authorized(secret) == secret = ADMIN_SECRET

ClearChannelOk(channel) ==
  ~Truthy(channel) \/ Includes(Channels \cup {"both"}, channel)

\* `channel === 'both' || !channel`
ClearsAll(channel) == channel = Str(<<"both">>) \/ ~Truthy(channel)

\* ClearTargets when the else branch clears everything too.
ClearTargetsAlways(channel) == <<"channel1", "channel2">>

\* The channels an accepted clear_chat empties, in program order.
ClearTargets(channel) ==
  IF ClearsAll(channel) THEN <<"channel1", "channel2">> ELSE <<channel.str[1]>>

\* ClearedNotice without the `|| 'both'`.
ClearedNoticeRaw(channel) == channel.str

\* `channel || 'both'`
ClearedNotice(channel) == IF Truthy(channel) THEN channel.str ELSE <<"both">>

\* ClearEmits with the history sent before the notice.
ClearEmitsHistoryFirst(channel, msgs) ==
  <<Emit("all", "message_history", HistoryPayload(msgs)),
    Emit("all", "chat_cleared", [channel |-> ClearedNotice(channel)])>>

\* io.emit('chat_cleared', ...); io.emit('message_history', {...})
ClearEmits(channel, msgs) ==
  <<Emit("all", "chat_cleared", [channel |-> ClearedNotice(channel)]),
    Emit("all", "message_history", HistoryPayload(msgs))>>

\* The forEach(deleteMessageImage) calls over the targets, up to the first
\* target that is not an array (forEach of undefined throws).
RECURSIVE DeleteTargets(_, _, _)
DeleteTargets(targets, msgs, failing) ==
  IF targets = <<>> THEN [effects |-> <<>>, threw |-> FALSE]
  ELSE IF Head(targets) \notin DOMAIN msgs
  THEN [effects |-> <<>>, threw |-> TRUE]
  ELSE LET first == forEachDelete(msgs[Head(targets)], failing)
           rest == DeleteTargets(Tail(targets), msgs, failing)
       IN [effects |-> first \o rest.effects, threw |-> rest.threw]

\* A target is not an array: its forEach throws.
ForEachThrows(targets, msgs) ==
  \E i \in DOMAIN targets : targets[i] \notin DOMAIN msgs

TargetFiles(targets, msgs) ==
  UNION {ImageFiles(msgs[c]) : c \in {targets[i] : i \in 1..Len(targets)} \cap DOMAIN msgs}

\* messages.channelN = [] for every target
Emptied(msgs, targets) ==
  [c \in DOMAIN msgs \cup {targets[i] : i \in 1..Len(targets)} |->
     IF \E i \in 1..Len(targets) : targets[i] = c THEN <<>> ELSE msgs[c]]

ClearChat(s, data) ==
  /\ up
  /\ s \in DOMAIN userIdOf
  /\ UNCHANGED <<ADMIN_SECRET, backup, uuids>>
  /\ IF data = NoPayload
     THEN \* destructuring undefined throws
          /\ Crashed(<<>>)
          /\ lastOp' = "clear_chat:throw"
          /\ UNCHANGED <<primary, faulted>>
     ELSE IF ~Authorized(data.secret)
     THEN /\ lastOp' = "clear_chat:error"
          /\ effects' = <<ErrorNotice(s, <<"Unauthorized: Invalid admin secret">>)>>
          /\ UNCHANGED <<up, messages, primary, faulted, userIdOf>>
     ELSE IF ~ClearChannelOk(data.channel)
     THEN /\ lastOp' = "clear_chat:error"
          /\ effects' = <<ErrorNotice(s, <<"Invalid channel">>)>>
          /\ UNCHANGED <<up, messages, primary, faulted, userIdOf>>
     ELSE LET targets == ClearTargets(data.channel) IN
          IF ForEachThrows(targets, messages)
          THEN /\ lastOp' = "clear_chat:throw"
               /\ UNCHANGED primary
               /\ \E failing \in FailingChoices(TargetFiles(targets, messages)) :
                    /\ Crashed(DeleteTargets(targets, messages, failing).effects)
                    /\ faulted' = (faulted \/ failing # {})
          ELSE /\ lastOp' = "clear_chat:ok"
               /\ UNCHANGED <<up, userIdOf>>
               /\ \E failing \in FailingChoices(TargetFiles(targets, messages)) :
                  \E w \in IF failing = {} THEN IoOutcomes ELSE {"ok"} :
                    /\ messages' = Emptied(messages, targets)
                    /\ faulted' = (faulted \/ failing # {} \/ w = "fail")
                    /\ primary' = saveMessages(messages', primary, w)
                    /\ effects' =
                         DeleteTargets(targets, messages, failing).effects
                         \o <<FsWrite(w)>>
                         \o ClearEmits(data.channel, messages')
  /\ received' = Delivered(received, effects', DOMAIN userIdOf')

----------------------------------------------------------------------------

Next ==
  \/ Start
  \/ Stop
  \/ \E s \in Sockets : Connect(s)
  \/ \E s \in Sockets : Disconnect(s)
  \/ \E s \in Sockets, data \in SendInputs : SendMessage(s, data)
  \/ \E s \in Sockets, data \in ClearInputs : ClearChat(s, data)
  \/ \E s \in Sockets : SendMessage(s, NoPayload) \/ ClearChat(s, NoPayload)

Spec == Init /\ [][Next]_vars

----------------------------------------------------------------------------
(* Reading the record of the last step                                     *)

Deletes(log) == SelectSeq(log, LAMBDA e : e.op = "delete")
Shifts(log) == SelectSeq(log, LAMBDA e : e.op = "shift")
Indices(log, op) == {i \in DOMAIN log : log[i].op = op}

Accepted == lastOp = "send_message:ok"
Cleared == lastOp = "clear_chat:ok"

\* The payload of the broadcast that ends an accepted send_message.
Broadcast == effects[Len(effects)].payload

\* The notice that an accepted clear_chat broadcasts.
Notice == effects[Len(effects) - 1].payload

WriteSucceeded == \E i \in DOMAIN effects : effects[i].op = "write" /\ effects[i].ev = "ok"

\* The last step was some send_message / some clear_chat.
SendStep == lastOp' \in {"send_message:ok", "send_message:error", "send_message:throw"}
ClearStep == lastOp' \in {"clear_chat:ok", "clear_chat:error", "clear_chat:throw"}

UnauthorizedNotice(s) ==
  Emit(s, "error", [message |-> <<"Unauthorized: Invalid admin secret">>])

\* Payload values beyond those the clients of the model send, for the
\* properties of the validation alone.
AllSendInputs ==
  [channel : {Undefined, Num, Str(<<>>), Str(<<"channel1">>), Str(<<"channel2">>),
              Str(<<"both">>), Str(<<"lobby">>)},
   username : {Undefined, Num, Str(<<>>), Str(<<" ">>), Str(<<" ", "a">>)},
   message : {Undefined, Num, Str(<<>>), Str(<<" ">>), Str(<<" ", "a">>),
              LongText, PaddedText, BlankText},
   imageUrl : {Undefined, Num, Str(<<>>), Str(ImageUrl("x")), Str(<<"/uploads/">>),
               Str(<<"/tmp/", "x">>)}]

----------------------------------------------------------------------------
(* C1..C10                                                                 *)

\* C1: in every state after startup each channel holds at most
\* MAX_MESSAGES_PER_CHANNEL messages, and so does every history snapshot
\* sent to a client.
C1_RetentionBound ==
  /\ up => \A c \in DOMAIN messages : Len(messages[c]) <= MAX_MESSAGES_PER_CHANNEL
  /\ \A i \in DOMAIN effects :
       (effects[i].op = "emit" /\ effects[i].ev = "message_history")
       => \A c \in DOMAIN effects[i].payload :
            Len(effects[i].payload[c]) <= MAX_MESSAGES_PER_CHANNEL

\* C2: an accepted submission to a channel holding exactly the maximum
\* leaves it as the old messages without the oldest, followed by the new
\* message; to a channel holding fewer, the new message is appended and
\* nothing is removed.
C2_FifoEviction ==
  [][ lastOp' = "send_message:ok" =>
        LET b == effects'[Len(effects')].payload
            old == messages[b.channel]
            new == messages'[b.channel]
        IN /\ Len(old) = MAX_MESSAGES_PER_CHANNEL
                => new = Tail(old) \o <<b.message>>
           /\ Len(old) < MAX_MESSAGES_PER_CHANNEL
                => new = Append(old, b.message) /\ Shifts(effects') = <<>>
           /\ \A c \in DOMAIN messages \ {b.channel} : messages'[c] = messages[c]
    ]_vars

C2_Witness ==
  /\ Accepted
  /\ Shifts(effects) # <<>>
  /\ Len(messages[Broadcast.channel]) = MAX_MESSAGES_PER_CHANNEL
  /\ Shifts(effects)[1].payload.id # Broadcast.message.id

\* C3: every message created by an accepted submit-message has a non-empty
\* text or an imageUrl, whatever the text and imageUrl of the payload.
C3_ContentInvariant ==
  /\ Accepted =>
       LET m == Broadcast.message
           list == messages[Broadcast.channel]
       IN /\ Len(m.message) > 0 \/ HasImageUrl(m)
          /\ list[Len(list)] = m
  /\ lastOp = "init" =>
       \A data \in AllSendInputs :
         SendVerdict(data) = <<"ok">> =>
           LET m == NewMessage(data, uuidv4(1), 2)
           IN Len(m.message) > 0 \/ HasImageUrl(m)

C3_Witness ==
  /\ Accepted
  /\ Broadcast.message.message = <<>>
  /\ HasImageUrl(Broadcast.message)

\* C4: a clear-request whose secret differs from the configured secret
\* changes neither the channels nor the snapshot, issues no delete request,
\* broadcasts nothing and sends one Unauthorized error to the requester,
\* whatever its channel field.
C4_UnauthorizedClearChangesNothing ==
  [][ ClearStep =>
        \A s \in DOMAIN userIdOf :
          \/ /\ effects' = <<UnauthorizedNotice(s)>>
             /\ UNCHANGED <<messages, primary, userIdOf, up>>
          \/ \A data \in ClearInputs :
               data.secret # ADMIN_SECRET => ~ClearChat(s, data)
    ]_vars

C4_Witness ==
  /\ lastOp = "clear_chat:error"
  /\ \E s \in Sockets : effects = <<UnauthorizedNotice(s)>>
  /\ Cardinality(DOMAIN userIdOf) = 2
  /\ \E c \in DOMAIN messages : messages[c] # <<>>

\* The submissions the four validation errors are about.
Rejectable(data) ==
  \/ ~Includes(Channels, data.channel)
  \/ data.username.type # "string" \/ Trim(data.username.str) = <<>>
  \/ /\ data.message.type # "string" \/ Trim(data.message.str) = <<>>
     /\ data.imageUrl.type # "string" \/ data.imageUrl.str = <<>>
        \/ Head(data.imageUrl.str) # "/uploads/"
  \/ /\ data.message.type = "string" /\ Trim(data.message.str) # <<>>
     /\ Len(data.message.str) > MAX_MESSAGE_LENGTH

RejectableInputs == {data \in SendInputs : Rejectable(data)}

\* The step is the rejection of a submission of socket s: nothing changes
\* and its only effect is one error notice, sent to s.
RejectedFor(s) ==
  /\ lastOp' = "send_message:error"
  /\ UNCHANGED <<messages, primary, userIdOf, up>>
  /\ Len(effects') = 1
  /\ effects'[1].op = "emit" /\ effects'[1].ev = "error" /\ effects'[1].to = s

\* One rejected submission for each error that send_message emits.
ErrorProbes ==
  { Payload(Str(<<"lobby">>), Undefined, LongText, Undefined),
    Payload(Str(<<"channel1">>), Str(<<" ">>), LongText, Str(ImageUrl("x"))),
    Payload(Str(<<"channel2">>), Str(<<" ", "a">>), BlankText, Str(<<"/tmp/", "x">>)),
    Payload(Str(<<"channel1">>), Str(<<" ", "a">>), LongText, Str(ImageUrl("x"))) }

\* C5: a submit-message of one of the four rejected kinds leaves the
\* channels and the snapshot unchanged, issues no delete request and
\* broadcasts nothing; exactly one error notice is sent, to the requesting
\* socket and to no other.  (A step that is not such a rejection for s is
\* not a rejectable submission of s; on a rejection for another socket this
\* is looked at for one submission per error.)
C5_RejectedSendChangesNothing ==
  [][ SendStep =>
        \A s \in DOMAIN userIdOf :
          \/ RejectedFor(s)
          \/ \A data \in (IF lastOp' = "send_message:error"
                           THEN ErrorProbes ELSE RejectableInputs) :
               ~SendMessage(s, data)
    ]_vars

C5_Witness ==
  /\ lastOp = "send_message:error"
  /\ effects[1].payload.message[1] = "Message too long (max "
  /\ Cardinality(DOMAIN userIdOf) = 2
  /\ \E c \in DOMAIN messages : messages[c] # <<>>

\* C6: what a load would read back after a successful save equals the
\* in-memory state field for field, and what load put in memory is exactly
\* what the file holds: no field of a message is added, removed or changed.
C6_PersistenceRoundTrip ==
  /\ (up /\ WriteSucceeded) =>
       /\ loadMessages("ok").messages = messages
       /\ JSONparse(JSONstringify(messages)) = messages
  /\ (lastOp = "start" /\ ~faulted /\ primary.exists /\ primary.valid) =>
       JSONstringify(messages) = primary.json

C6_Witness ==
  /\ Accepted
  /\ WriteSucceeded
  /\ \E c \in DOMAIN messages : \E i \in DOMAIN messages[c] :
       ~Has(messages[c][i], "timestamp")

ClearBoth == [channel |-> Str(<<"both">>), secret |-> ADMIN_SECRET]
ClearAbsent == [channel |-> Undefined, secret |-> ADMIN_SECRET]
ClearOne(c) == [channel |-> Str(<<c>>), secret |-> ADMIN_SECRET]

\* C7: with the correct secret, a clear-request for "both" and one with no
\* channel have the same outcomes from every state: every channel empty, the
\* same delete requests, the same snapshot, the same notice carrying "both".
C7_ClearBothEqualsAbsent ==
  [][ ClearStep =>
        \A s \in DOMAIN userIdOf :
          /\ ClearChat(s, ClearBoth) <=> ClearChat(s, ClearAbsent)
          /\ (lastOp' = "clear_chat:ok" /\ ClearChat(s, ClearAbsent)) =>
               /\ \A c \in Channels : messages'[c] = <<>>
               /\ effects'[Len(effects') - 1].ev = "chat_cleared"
               /\ effects'[Len(effects') - 1].payload.channel = <<"both">>
    ]_vars

C7_Witness ==
  /\ Cleared
  /\ Notice.channel = <<"both">>
  /\ Len(Deletes(effects)) >= 2
  /\ \A c \in Channels : messages[c] = <<>>

\* The files of the image messages of a list, in order.
RECURSIVE ImageFileSeq(_)
ImageFileSeq(list) ==
  IF list = <<>> THEN <<>>
  ELSE (IF HasImageUrl(Head(list)) THEN <<Basename(Head(list).imageUrl)>> ELSE <<>>)
       \o ImageFileSeq(Tail(list))

\* C8: an authorised clear-request naming one channel empties that channel
\* only: the other channel is unchanged, the delete requests are exactly
\* those for the named channel's images, and the notice names that channel.
C8_SingleChannelClearFrame ==
  [][ \A s \in DOMAIN userIdOf, c \in Channels :
        (lastOp' = "clear_chat:ok" /\ ClearChat(s, ClearOne(c))) =>
          /\ messages'[c] = <<>>
          /\ \A o \in Channels \ {c} :
               o \in DOMAIN messages => messages'[o] = messages[o]
          /\ LET dels == Deletes(effects') IN
               [i \in DOMAIN dels |-> dels[i].payload] = ImageFileSeq(messages[c])
          /\ effects'[Len(effects') - 1].payload = [channel |-> <<c>>]
    ]_vars

C8_Witness ==
  /\ Cleared
  /\ Notice.channel = <<"channel1">>
  /\ Deletes(effects) # <<>>
  /\ messages["channel1"] = <<>>
  /\ \E i \in DOMAIN messages["channel2"] : HasImageUrl(messages["channel2"][i])

\* C9: an accepted submission that evicts a message with an imageUrl issues
\* exactly one delete request, for that image; one that evicts a message
\* without an imageUrl, or evicts nothing, issues none.
C9_EvictionCleanup ==
  [][ lastOp' = "send_message:ok" =>
        LET b == effects'[Len(effects')].payload
            old == messages[b.channel]
            evicted == Len(messages'[b.channel]) <= Len(old)
            dels == Deletes(effects')
        IN IF evicted /\ HasImageUrl(Head(old))
           THEN /\ Len(dels) = 1
                /\ dels[1].payload = Basename(Head(old).imageUrl)
           ELSE dels = <<>>
    ]_vars

C9_Witness ==
  /\ Accepted
  /\ Shifts(effects) # <<>>
  /\ HasImageUrl(Shifts(effects)[1].payload)
  /\ Len(Deletes(effects)) = 1

\* C10: when an accepted submit-message or clear-request has finished and
\* its write succeeded, messages.json holds the in-memory state; the one
\* write comes after the eviction or the deletions and before every emit.
C10_SnapshotAfterMutation ==
  (Accepted \/ Cleared) =>
    /\ Cardinality(Indices(effects, "write")) = 1
    /\ \A k \in Indices(effects, "write") :
         /\ \A i \in Indices(effects, "shift") \cup Indices(effects, "delete") : i < k
         /\ \A i \in Indices(effects, "emit") : k < i
         /\ Indices(effects, "emit") # {}
         /\ effects[k].ev = "ok" =>
              /\ primary = JsonFile(JSONstringify(messages))
              /\ JSONparse(primary.json) = messages

C10_Witness ==
  /\ Accepted
  /\ WriteSucceeded
  /\ Shifts(effects) # <<>>
  /\ primary = JsonFile(JSONstringify(messages))

----------------------------------------------------------------------------
(* C11..C20                                                                *)

\* The start that has just happened found a file and failed on it: the read
\* threw, the text was no JSON, or the JSON lacked a channel.  (A start that
\* migrated has a valid messages.json with both channels afterwards.)
LoadFailed ==
  /\ lastOp = "start"
  /\ LoadSource # "none"
  /\ LET file == IF primary.exists THEN primary ELSE backup
     IN \/ ~file.valid
        \/ ~(Channels \subseteq DOMAIN file.json)
        \/ faulted /\ effects = <<>>

\* C11: whenever load fails while reading, parsing or interpreting the
\* snapshot, the process runs on with both channels present and empty.
C11_FailOpenLoad ==
  LoadFailed => up /\ messages = InitialMessages

\* C12: a start uses messages.json whenever it exists, then reads nothing
\* from the backup and writes nothing; only when messages.json is absent
\* and the backup exists is the state taken from the backup, and then
\* messages.json is written and holds the loaded state.
C12_LoadPrecedenceAndMigration ==
  [][ lastOp' = "start" =>
        /\ primary.exists =>
              /\ primary' = primary /\ effects' = <<>>
              /\ messages' \in {JSONparse(primary.json), InitialMessages}
              /\ (primary.valid /\ ~faulted') => messages' = JSONparse(primary.json)
        /\ (~primary.exists /\ backup.exists /\ backup.valid
              /\ Channels \subseteq DOMAIN backup.json) =>
              /\ messages' = JSONparse(backup.json)
              /\ Len(effects') = 1 /\ effects'[1].op = "write"
              /\ effects'[1].ev = "ok" =>
                    /\ primary' = JsonFile(JSONstringify(messages'))
                    /\ JSONparse(primary'.json) = messages'
        /\ (~primary.exists /\ ~backup.exists) =>
              /\ messages' = InitialMessages
              /\ primary' = primary /\ effects' = <<>>
        /\ backup' = backup
    ]_vars

C12_Witness ==
  /\ lastOp = "start"
  /\ effects = <<FsWrite("ok")>>
  /\ primary = JsonFile(JSONstringify(messages))
  /\ \E c \in DOMAIN messages : messages[c] # <<>>

\* C13: on every connection the first event the client receives is its
\* identity and the second the history of the channels as they are at that
\* moment; no broadcast, notice or error reaches it before these two.
C13_ConnectProtocol ==
  [][ /\ \A s \in DOMAIN userIdOf' : received'[s] = <<"user_id", "message_history">>
      /\ \A s \in DOMAIN userIdOf' \ DOMAIN userIdOf :
           /\ Len(effects') >= 2
           /\ effects'[1] = [op |-> "emit", to |-> s, ev |-> "user_id",
                             payload |-> userIdOf'[s]]
           /\ effects'[2] = [op |-> "emit", to |-> s, ev |-> "message_history",
                             payload |-> [c \in Channels \cap DOMAIN messages |->
                                            messages[c]]]
           /\ messages' = messages
    ]_vars

\* A second client has connected after the first one cleared the chat.
C13_Witness ==
  /\ lastOp = "connection"
  /\ Cardinality(DOMAIN userIdOf) = 2
  /\ \A s \in DOMAIN userIdOf : received[s] = <<"user_id", "message_history">>
  /\ primary.exists /\ ~backup.exists
  /\ messages = InitialMessages
  /\ effects[2].payload = InitialMessages

\* The submissions that none of the four validation errors is about.
AcceptableInputs == {data \in SendInputs : ~Rejectable(data)}

ValidImage(v) == v.type = "string" /\ v.str # <<>> /\ Head(v.str) = "/uploads/"

\* C14: every accepted submit-message emits exactly one new_message, to all
\* connected clients, carrying the target channel and the message that is
\* now last in that channel: trimmed username, trimmed text (empty for an
\* image-only message), and imageUrl only when a valid one was given.
C14_BroadcastOfAccepted ==
  [][ lastOp' = "send_message:ok" =>
        LET emits == SelectSeq(effects', LAMBDA e : e.op = "emit")
            b == emits[1].payload
        IN /\ Len(emits) = 1
           /\ emits[1].to = "all" /\ emits[1].ev = "new_message"
           /\ DOMAIN b = {"channel", "message"}
           /\ b.channel \in Channels
           /\ messages'[b.channel] # <<>>
           /\ messages'[b.channel][Len(messages'[b.channel])] = b.message
           /\ \A s \in DOMAIN userIdOf, data \in AcceptableInputs :
                SendMessage(s, data) =>
                  /\ b.channel = data.channel.str[1]
                  /\ b.message.username = Trim(data.username.str)
                  /\ b.message.message =
                       (IF data.message.type = "string"
                        THEN Trim(data.message.str) ELSE <<>>)
                  /\ Has(b.message, "imageUrl") <=> ValidImage(data.imageUrl)
                  /\ ValidImage(data.imageUrl) =>
                       b.message.imageUrl = data.imageUrl.str
    ]_vars

\* A text sent with surrounding blanks and without a valid image has been
\* accepted and broadcast trimmed.
C14_Witness ==
  /\ Accepted
  /\ Broadcast.message.username = <<"a">>
  /\ Broadcast.message.message = <<"a">>
  /\ ~Has(Broadcast.message, "imageUrl")
  /\ Len(SelectSeq(effects, LAMBDA e : e.op = "emit")) = 1

\* The channels a clear-request with this channel field is meant to empty.
ExpectedTargets(channel) ==
  IF channel = Str(<<"channel1">>) THEN <<"channel1">>
  ELSE IF channel = Str(<<"channel2">>) THEN <<"channel2">>
  ELSE <<"channel1", "channel2">>

RECURSIVE ImagesOfTargets(_, _)
ImagesOfTargets(targets, msgs) ==
  IF targets = <<>> THEN <<>>
  ELSE ImageFileSeq(msgs[Head(targets)]) \o ImagesOfTargets(Tail(targets), msgs)

\* The clear-requests that carry the admin secret.
AuthorisedClears == {data \in ClearInputs : data.secret = ADMIN_SECRET}

\* C15: an authorised clear-request requests the deletion of the image of
\* every image message held in each targeted channel at that moment, before
\* anything else it does; whether or not a deletion fails, the targeted
\* channels end empty, the snapshot is written and the clear is broadcast.
C15_ClearCleanup ==
  [][ lastOp' = "clear_chat:ok" =>
        \A data \in AuthorisedClears :
          \/ LET targets == ExpectedTargets(data.channel)
                 files == ImagesOfTargets(targets, messages)
                 n == Len(files)
             IN /\ Len(effects') = n + 3
                /\ \A i \in 1..n : effects'[i].op = "delete"
                                    /\ effects'[i].payload = files[i]
                /\ effects'[n + 1].op = "write"
                /\ effects'[n + 2].ev = "chat_cleared"
                /\ effects'[n + 3].ev = "message_history"
                /\ \A i \in 1..Len(targets) : messages'[targets[i]] = <<>>
                /\ effects'[n + 1].ev = "ok" =>
                     primary' = JsonFile(JSONstringify(messages'))
                /\ up'
          \/ \A s \in DOMAIN userIdOf : ~ClearChat(s, data)
    ]_vars

\* A clear has deleted several images, one deletion failed, and the clear
\* went through.
C15_Witness ==
  /\ Cleared
  /\ Len(Deletes(effects)) >= 2
  /\ \E i \in DOMAIN effects : effects[i].op = "delete" /\ effects[i].ev = "fail"
  /\ \A c \in Channels : messages[c] = <<>>
  /\ primary = JsonFile(JSONstringify(messages))

\* C16: an accepted clear-request sends every connected client a
\* chat_cleared and then a message_history, in that order and nothing else;
\* the history shows each targeted channel empty and each other channel
\* with its messages; a rejected clear emits neither.
C16_ClearResyncOrdering ==
  [][ /\ lastOp' = "clear_chat:ok" =>
          LET emits == SelectSeq(effects', LAMBDA e : e.op = "emit")
          IN /\ Len(emits) = 2
             /\ emits[1].to = "all" /\ emits[1].ev = "chat_cleared"
             /\ emits[2].to = "all" /\ emits[2].ev = "message_history"
             /\ DOMAIN emits[2].payload = Channels
             /\ \A data \in AuthorisedClears :
                  \/ LET targets == ExpectedTargets(data.channel)
                         targeted == {targets[i] : i \in 1..Len(targets)}
                     IN \A c \in Channels :
                          emits[2].payload[c] =
                            (IF c \in targeted THEN <<>> ELSE messages[c])
                  \/ \A s \in DOMAIN userIdOf : ~ClearChat(s, data)
      /\ lastOp' = "clear_chat:error" =>
          \A i \in DOMAIN effects' :
            effects'[i].ev \notin {"chat_cleared", "message_history"}
    ]_vars

\* channel2 has been cleared while channel1 holds messages: the notice and
\* then a history still showing channel1.
C16_Witness ==
  /\ Cleared
  /\ Notice = [channel |-> <<"channel2">>]
  /\ effects[Len(effects)].ev = "message_history"
  /\ effects[Len(effects)].payload["channel1"] # <<>>
  /\ effects[Len(effects)].payload["channel2"] = <<>>

ChannelFails(data) == ~Includes(Channels, data.channel)
NameFails(data) == data.username.type # "string" \/ Trim(data.username.str) = <<>>
TextGiven(data) == data.message.type = "string" /\ Trim(data.message.str) # <<>>
ContentFails(data) == ~TextGiven(data) /\ ~ValidImage(data.imageUrl)
LengthFails(data) == TextGiven(data) /\ Len(data.message.str) > MAX_MESSAGE_LENGTH

\* The error of the first check that fails, in the order channel, username,
\* content, length.
ExpectedError(data) ==
  IF ChannelFails(data) THEN <<"Invalid channel">>
  ELSE IF NameFails(data) THEN <<"Username is required">>
  ELSE IF ContentFails(data) THEN <<"Message or image is required">>
  ELSE IF LengthFails(data)
  THEN <<"Message too long (max ", ToString(MAX_MESSAGE_LENGTH), " characters)">>
  ELSE <<"ok">>

UnknownChannelNoName == Payload(Str(<<"lobby">>), Str(<<>>), Str(<<"a">>), Undefined)
NoNameLongText == Payload(Str(<<"channel1">>), Str(<<>>), LongText, Undefined)

\* The submissions that fail more than one check.
MultiFailingInputs ==
  {data \in RejectableInputs :
     \/ ChannelFails(data) /\ (NameFails(data) \/ ContentFails(data) \/ LengthFails(data))
     \/ NameFails(data) /\ (ContentFails(data) \/ LengthFails(data))}

\* C17: submit-message checks channel, username, content and length in
\* that order and reports the error of the first check that fails: an
\* unknown channel with an empty username reports the channel, an empty
\* username with an over-long text reports the username.
C17_ValidationOrder ==
  [][ /\ lastOp = "init" =>
          /\ \A data \in AllSendInputs \cup RejectableInputs :
               SendVerdict(data) = ExpectedError(data)
          /\ SendVerdict(UnknownChannelNoName) = <<"Invalid channel">>
          /\ SendVerdict(NoNameLongText) = <<"Username is required">>
      /\ lastOp' = "send_message:error" =>
          \A s \in DOMAIN userIdOf \cap {effects'[1].to}, data \in MultiFailingInputs :
            SendMessage(s, data) =>
              effects'[1].payload = [message |-> ExpectedError(data)]
    ]_vars

\* A submission without a usable username and with an over-long text has
\* been answered with the username error.
C17_Witness ==
  /\ lastOp = "send_message:error"
  /\ effects[1].payload = [message |-> <<"Username is required">>]
  /\ \E data \in MultiFailingInputs :
       ~ChannelFails(data) /\ NameFails(data) /\ LengthFails(data)

WriteFailed(log) == \E i \in DOMAIN log : log[i].op = "write" /\ log[i].ev = "fail"

\* The data files do not hold what is in memory.
Stale == up /\ loadMessages("ok").messages # messages

\* C18: when the write fails during an accepted submit-message or
\* clear-request, the process stays up, the change to memory is kept, the
\* broadcast is still emitted and no error notice is sent; messages.json
\* keeps its old content, and later connections and submissions work from
\* memory, not from the files.
C18_SaveFailureNonFatal ==
  [][ /\ (lastOp' = "send_message:ok" /\ WriteFailed(effects')) =>
          LET b == effects'[Len(effects')] IN
            /\ up' /\ primary' = primary
            /\ b.to = "all" /\ b.ev = "new_message"
            /\ messages'[b.payload.channel][Len(messages'[b.payload.channel])]
                 = b.payload.message
            /\ \A i \in DOMAIN effects' : effects'[i].ev # "error"
      /\ (lastOp' = "clear_chat:ok" /\ WriteFailed(effects')) =>
          LET n == effects'[Len(effects') - 1]
              h == effects'[Len(effects')]
          IN /\ up' /\ primary' = primary
             /\ n.to = "all" /\ n.ev = "chat_cleared"
             /\ h.to = "all" /\ h.ev = "message_history"
             /\ h.payload = [c \in Channels |-> messages'[c]]
             /\ \E c \in Channels : messages'[c] = <<>>
             /\ \A i \in DOMAIN effects' : effects'[i].ev # "error"
      /\ (lastOp' = "connection" /\ Stale) =>
          effects'[2].payload = [c \in Channels \cap DOMAIN messages |-> messages[c]]
      /\ (lastOp' = "send_message:ok" /\ Stale) =>
          LET b == effects'[Len(effects')].payload
              pushed == Append(messages[b.channel], b.message)
          IN messages'[b.channel] \in {pushed, Tail(pushed)}
    ]_vars

\* A clear whose write failed: memory is emptied and broadcast, the files
\* still hold the messages.
C18_Witness ==
  /\ Cleared /\ WriteFailed(effects)
  /\ Stale /\ up
  /\ \E c \in Channels \cap DOMAIN loadMessages("ok").messages :
       loadMessages("ok").messages[c] # <<>> /\ messages[c] = <<>>
  /\ effects[Len(effects)].payload = [c \in Channels |-> messages[c]]

\* C19: every submit-message or clear-request, whatever its payload and
\* whatever state the load left behind, ends with the process running and
\* either an error notice to the requester or the accepted change and its
\* broadcast; no handler ends with an unhandled error.
C19_NoClientEventFatal ==
  lastOp \in {"send_message:ok", "send_message:error", "send_message:throw",
              "clear_chat:ok", "clear_chat:error", "clear_chat:throw"} =>
    /\ up
    /\ lastOp \notin {"send_message:throw", "clear_chat:throw"}
    /\ effects # <<>> /\ effects[Len(effects)].op = "emit"

\* The author ids of the messages held in memory.
AuthorsOf(msgs) ==
  UNION {{msgs[c][i].userId : i \in DOMAIN msgs[c]} : c \in DOMAIN msgs}

SecretMatches(data) == ADMIN_SECRET # Undefined /\ data.secret = ADMIN_SECRET

\* A channel value that is neither a known channel, nor "both", nor absent.
InvalidClearChannel(channel) ==
  channel \notin {Undefined, Str(<<"channel1">>), Str(<<"channel2">>), Str(<<"both">>)}

\* The step answers socket s with the Invalid channel error and does
\* nothing else.
InvalidChannelFor(s) ==
  /\ lastOp' = "clear_chat:error"
  /\ effects' = <<Emit(s, "error", [message |-> <<"Invalid channel">>])>>
  /\ UNCHANGED <<messages, primary, userIdOf, up>>

\* C21: a clear-request with the right secret whose channel value is not a
\* known channel name, not "both" and not absent is rejected with an
\* Invalid channel error to the requester and changes, persists, deletes
\* and broadcasts nothing; the empty string is such a value.
C21_InvalidClearChannelRejected ==
  [][ ClearStep =>
        \A s \in DOMAIN userIdOf :
          \/ InvalidChannelFor(s)
          \/ \A data \in ClearInputs :
               SecretMatches(data) /\ InvalidClearChannel(data.channel)
                 => ~ClearChat(s, data)
    ]_vars

\* The image files that the messages held in memory refer to.
RetainedImages ==
  UNION {{Basename(messages[c][i].imageUrl) :
            i \in {j \in DOMAIN messages[c] : HasImageUrl(messages[c][j])}} :
         c \in DOMAIN messages}

\* C22: no dangling image reference: once a handler has finished, the
\* images whose deletion it requested are carried by no message that is
\* still held in either channel, also when several messages were submitted
\* with the same image.
C22_NoDanglingImageRef ==
  up => \A i \in DOMAIN effects :
          effects[i].op = "delete" => effects[i].payload \notin RetainedImages

\* C23: a clear-request is authorised only when an admin secret is
\* configured and the request carries that secret; every other
\* clear-request, and so every clear-request to a server without an admin
\* secret, the one that omits the secret included, is answered with the
\* Unauthorized error and changes nothing.
C23_ClearNeedsConfiguredSecret ==
  [][ ClearStep =>
        \A s \in DOMAIN userIdOf :
          \/ /\ effects' = <<UnauthorizedNotice(s)>>
             /\ UNCHANGED <<messages, primary, userIdOf, up>>
          \/ \A data \in ClearInputs :
               ~SecretMatches(data) => ~ClearChat(s, data)
    ]_vars

\* The emits of `log` that reach socket s, in the order they are made.
EmitsFor(s, log) == SelectSeq(log, LAMBDA e : e.op = "emit" /\ e.to \in {s, "all"})

\* A client appends a broadcast message to its copy of the channel and
\* keeps the newest MAX_MESSAGES_PER_CHANNEL.
ReplicaAppend(list, m) ==
  LET l == Append(list, m) IN
    IF Len(l) > MAX_MESSAGES_PER_CHANNEL
    THEN SubSeq(l, Len(l) - MAX_MESSAGES_PER_CHANNEL + 1, Len(l))
    ELSE l

\* A client's copy after one event: a history replaces it, a new_message is
\* appended to its channel, any other event leaves it alone.
ReplicaAfter(rep, e) ==
  IF e.ev = "message_history" THEN e.payload
  ELSE IF e.ev = "new_message"
  THEN LET c == e.payload.channel IN
         [d \in DOMAIN rep \cup {c} |->
            IF d = c
            THEN ReplicaAppend(IF c \in DOMAIN rep THEN rep[c] ELSE <<>>,
                               e.payload.message)
            ELSE rep[d]]
  ELSE rep

RECURSIVE Replay(_, _)
Replay(rep, events) ==
  IF events = <<>> THEN rep
  ELSE Replay(ReplicaAfter(rep, Head(events)), Tail(events))

\* C24: the copy a connected client keeps (the history received at
\* connect, each later new_message appended to its channel with the oldest
\* beyond the limit dropped, each later history taken in its place) equals
\* the server's channels whenever a handler has finished: a copy that was
\* equal before a step is equal after it, and the copy of a client that
\* has just connected is equal.
C24_ReplicaConsistency ==
  [][ up' =>
        \A s \in DOMAIN userIdOf' :
          Replay(IF s \in DOMAIN userIdOf THEN messages ELSE NoJson,
                 EmitsFor(s, effects')) = messages'
    ]_vars

====
